---- MODULE Spec2Model ----
\* Token lifecycle and request pipeline of the courier-delivery front end:
\*   AuthContext.tsx   (AuthProvider: reducer, restoreSession, refreshAccessToken,
\*                      logout, login, the token-expiry effect)
\*   axiosClient       (class AxiosClient: interceptors, handleTokenRefresh,
\*                      createRetryPromise, notifySubscribers)
\* The browser is single threaded: every action below is one task of the event
\* loop (a user gesture, a timer, or the arrival of one network response) run
\* to completion, including the React render and the effects it triggers.
EXTENDS Integers, Sequences, FiniteSets, TLC

\* ---------------------------------------------------------------- bounds
MaxTokens == 1      \* token pairs the identity service mints in one run
NumReq == 2         \* logical requests in flight at the same time
MaxLen == 2         \* entries in the notification sequence
NumIds == 1         \* distinct notification ids
MaxCalls == 1       \* remote calls of NotificationsProvider in flight at the same time
MaxReconnects == 1  \* connection losses one SignalRService instance goes through
MaxRetries == 6     \* failed attempts of one reconnect
MaxExp == 310       \* largest exp claim (seconds) of the tokens given to parseTokenExpiry

\* ------------------------------------------------------ program constants
refreshThreshold == 300000   \* 5 * 60 * 1000
OneHour == 3600000           \* 60 * 60 * 1000

\* ------------------------------------------------------------ value space
NoToken == 0                 \* null refresh token
NoTime == -1                 \* null tokenExpiresAt
NoUser == 0                  \* null userInfo
User1 == 1                   \* the identity returned by GET /api/identity/me
EmptyUser == 2               \* JSON.parse('{}')
Malformed == -1              \* access token whose payload cannot be decoded
ExpChoices == {301}                       \* exp claims (seconds) of the tokens minted in a run
StoredExpChoices == {0, 300, 301, 302, Malformed} \* exp claims of a token left in the store by an earlier run
TimePoints == {999, 1000, 302000}         \* values Date.now() takes in a run
StartTime == CHOOSE t \in TimePoints : \A u \in TimePoints : t <= u
Slots == 1..NumReq
PipeSlots == 1..(NumReq + 1)   \* request slots of the runs of the pipeline alone

\* An access token is its serial number and the exp claim of its payload.
\* The tokens minted in a run are numbered 1..MaxTokens; the pair an earlier
\* run left in the store has the next number.
NoAccess == [id |-> 0, exp |-> 0]
StoredTokenId == MaxTokens + 1
NoTokenData == [accessToken |-> NoAccess, refreshToken |-> NoToken, expiresAt |-> NoTime]

VARIABLES
  now,                \* Date.now()
  minted,             \* number of token pairs the identity service has minted in this run
  booted,             \* the mount effects of AuthProvider have run
  auth,               \* AuthState (useReducer state of AuthProvider)
  lsToken,            \* localStorage 'tokenData' (NoTokenData = key absent)
  lsUser,             \* localStorage 'userInfo'  (NoUser = key absent)
  timer,              \* deadline of the pending setTimeout of the expiry effect, NoTime if none
  isRefreshing,       \* AxiosClient.isRefreshing
  refreshSubscribers, \* AxiosClient.refreshSubscribers (requests parked, in push order)
  rcalls,             \* outstanding axios.post('/identity/refresh') calls of handleTokenRefresh
  reqs,               \* the logical requests in flight through axiosInstance
  h,                  \* what the last task did (history, read by the properties only)
  nstate,             \* NotificationsState (useReducer state of NotificationsProvider)
  ncalls,             \* remote calls of NotificationsProvider awaiting their response, in issue order
  nh,                 \* what the last task of NotificationsProvider did (history)
  nrender,            \* state.notifications of the last render of NotificationsProvider
  svc,                \* the SignalRService instance the SignalR effect created last
  held,               \* signalRServiceRef.current is that instance (FALSE: null)
  retired,            \* the instance cleaned up before it, until its calls have returned
  ph                  \* what the last task of the SignalRService did (history)

authvars == <<now, minted, booted, auth, lsToken, lsUser, timer, isRefreshing,
              refreshSubscribers, rcalls, reqs, h>>
notifvars == <<nstate, ncalls, nh, nrender>>
pushvars == <<svc, held, retired, ph>>
vars == <<authvars, notifvars, pushvars>>

\* ------------------------------------------------------------- AuthState
initialState ==
  [isAuthenticated |-> FALSE, token |-> NoAccess, refreshToken |-> NoToken,
   tokenExpiresAt |-> NoTime, userInfo |-> NoUser, isLoading |-> FALSE,
   isRefreshing |-> FALSE, error |-> "null"]

\* (variant: starting a refresh hides the token)
REFRESH_START_DropsToken(state) ==
  [state EXCEPT !.isRefreshing = TRUE, !.error = "null", !.token = NoAccess]

\* authReducer, case REFRESH_START
REFRESH_START(state) ==
  [state EXCEPT !.isRefreshing = TRUE, !.error = "null"]

\* (variant: a failed login leaves the loading flag set)
LOGIN_FAILURE_KeepLoading(state, a) ==
  [state EXCEPT !.isAuthenticated = FALSE, !.token = NoAccess,
                !.refreshToken = NoToken, !.tokenExpiresAt = NoTime,
                !.userInfo = NoUser, !.error = a.payload]

\* authReducer, case LOGIN_FAILURE
LOGIN_FAILURE(state, a) ==
  [state EXCEPT !.isAuthenticated = FALSE, !.token = NoAccess,
                !.refreshToken = NoToken, !.tokenExpiresAt = NoTime,
                !.userInfo = NoUser, !.isLoading = FALSE,
                !.error = a.payload]

\* authReducer: a is [type, tokenData, userInfo, payload]
authReducer(state, a) ==
  CASE a.type = "LOGIN_START" ->
         [state EXCEPT !.isLoading = TRUE, !.error = "null"]
    [] a.type = "LOGIN_SUCCESS" ->
         [state EXCEPT !.isAuthenticated = TRUE,
                       !.token = a.tokenData.accessToken,
                       !.refreshToken = a.tokenData.refreshToken,
                       !.tokenExpiresAt = a.tokenData.expiresAt,
                       !.userInfo = a.userInfo,
                       !.isLoading = FALSE, !.error = "null"]
    [] a.type = "LOGIN_FAILURE" -> LOGIN_FAILURE(state, a)
    [] a.type = "LOGOUT" -> initialState
    [] a.type = "RESTORE_SESSION" ->
         [state EXCEPT !.isAuthenticated = TRUE,
                       !.token = a.tokenData.accessToken,
                       !.refreshToken = a.tokenData.refreshToken,
                       !.tokenExpiresAt = a.tokenData.expiresAt,
                       !.userInfo = a.userInfo]
    [] a.type = "REFRESH_START" -> REFRESH_START(state)
    [] a.type = "REFRESH_SUCCESS" ->
         [state EXCEPT !.token = a.tokenData.accessToken,
                       !.refreshToken = a.tokenData.refreshToken,
                       !.tokenExpiresAt = a.tokenData.expiresAt,
                       !.isRefreshing = FALSE, !.error = "null"]
    [] a.type = "REFRESH_FAILURE" -> initialState
    [] a.type = "CLEAR_ERROR" -> [state EXCEPT !.error = "null"]
    [] OTHER -> state

Act(type) == [type |-> type, tokenData |-> NoTokenData, userInfo |-> NoUser, payload |-> "null"]
ActTd(type, td, ui) == [type |-> type, tokenData |-> td, userInfo |-> ui, payload |-> "null"]
ActMsg(type, msg) == [type |-> type, tokenData |-> NoTokenData, userInfo |-> NoUser, payload |-> msg]

\* (variant: the exp claim is not converted to milliseconds)
parseTokenExpiry_Seconds(token, t) ==
  IF token.exp = Malformed THEN t + OneHour ELSE token.exp

\* parseTokenExpiry (AuthContext and AxiosClient have the same body):
\* exp claim * 1000, a missing exp counts as 0, an undecodable token gives now + 1h
parseTokenExpiry(token, t) ==
  IF token.exp = Malformed THEN t + OneHour ELSE token.exp * 1000

\* ------------------------------------------------------------ the world
\* Handlers are written as functions from world to world and composed; an
\* action assigns the primed variables from the world its handler returns.
World ==
  [auth |-> auth, lsToken |-> lsToken, lsUser |-> lsUser, timer |-> timer,
   isRefreshing |-> isRefreshing, subs |-> refreshSubscribers,
   rcalls |-> rcalls, reqs |-> reqs, overflow |-> FALSE,
   h |-> [op |-> "none",
          pre |-> [auth |-> auth, lsToken |-> lsToken, lsUser |-> lsUser, timer |-> timer],
          rendered |-> [auth |-> auth, lsToken |-> lsToken, lsUser |-> lsUser],
          effs |-> <<>>,        \* runs of the expiry effect, in order
          calls |-> <<>>,       \* invocations of refreshAccessToken, in order
          events |-> <<>>,      \* CustomEvents dispatched on window, in order
          callFailed |-> {},    \* refresh network calls that came back failed
          failed |-> {},        \* refresh paths whose failure handler ran
          succeeded |-> {},     \* refresh paths whose success handler ran
          issued |-> 0,         \* POST /identity/refresh calls put on the network
          resumed |-> {},       \* requests resumed by a refresh: [r, given (token id, 0 = null)]
          settled |-> {},       \* promises settled: [r, kind, res, given, capTd]
          order |-> <<>>,       \* requests a refresh re-sent or rejected, in order
          tk |-> NoAccess,      \* access token delivered by the response
          login |-> "none"]]

\* A slot holds a logical request from its first send until its promise
\* settles: the _retry flag of its config, the token of its last send, how
\* often it was sent, how many refreshes it started and joined, and what the
\* caller's continuation has captured.
FreeReq ==
  [st |-> "free", kind |-> "none", retry |-> FALSE, tok |-> NoAccess,
   sends |-> 0, started |-> 0, joined |-> 0,
   capTd |-> NoTokenData, capUser |-> NoUser]

RefreshKinds == {"proactive", "silent"}

dispatch(w, a) == [w EXCEPT !.auth = authReducer(w.auth, a)]

\* clearStoredAuth / storeTokenData
clearStoredAuth(w) == [w EXCEPT !.lsToken = NoTokenData, !.lsUser = NoUser]
storeTokenData(w, td, ui) == [w EXCEPT !.lsToken = td, !.lsUser = ui]

\* a stored 'tokenData' that JSON.parse rejects; the getters of AxiosClient
\* catch the error and return null
CorruptTokenData == [accessToken |-> NoAccess, refreshToken |-> NoToken, expiresAt |-> Malformed]

\* AxiosClient.getStoredAccessToken / getStoredRefreshToken / hasRefreshToken
getStoredAccessToken(w) == w.lsToken.accessToken
getStoredRefreshToken(w) == w.lsToken.refreshToken
hasRefreshToken(w) == getStoredRefreshToken(w) # NoToken

\* window.dispatchEvent(new CustomEvent(...)) and the two listeners of AuthProvider
handleTokenRefreshed(w, td) ==
  IF w.auth.userInfo # NoUser THEN dispatch(w, ActTd("REFRESH_SUCCESS", td, NoUser)) ELSE w
handleLogout(w) == dispatch(w, Act("LOGOUT"))
dispatchEvent(w, name, td) ==
  LET w1 == [w EXCEPT !.h.events = Append(@, name)]
  IN IF name = "auth:tokenRefreshed" THEN handleTokenRefreshed(w1, td) ELSE handleLogout(w1)

\* axiosInstance.get/post: a new logical request; the request interceptor
\* attaches the stored access token.
FreeSlots(w) == {s \in DOMAIN w.reqs : w.reqs[s].st = "free"}
send(w, kind, capTd, capUser) ==
  IF FreeSlots(w) = {} THEN [w EXCEPT !.overflow = TRUE]
  ELSE LET s == CHOOSE x \in FreeSlots(w) : \A y \in FreeSlots(w) : x <= y
       IN [w EXCEPT !.reqs[s] = [FreeReq EXCEPT !.st = "sent", !.kind = kind,
                                    !.tok = getStoredAccessToken(w), !.sends = 1,
                                    !.capTd = capTd, !.capUser = capUser],
                    !.h.issued = IF kind \in RefreshKinds THEN @ + 1 ELSE @]

\* axiosInstance.request(originalRequest) after the Authorization header was
\* set to token: the request interceptor overwrites it with the stored token
\* when there is one.
resend(w, r, token) ==
  [w EXCEPT !.reqs[r].st = "sent",
            !.reqs[r].tok = IF getStoredAccessToken(w) # NoAccess
                            THEN getStoredAccessToken(w) ELSE token,
            !.reqs[r].sends = @ + 1,
            !.h.resumed = @ \cup {[r |-> r, given |-> token.id]},
            !.h.order = Append(@, r),
            !.h.issued = IF w.reqs[r].kind \in RefreshKinds THEN @ + 1 ELSE @]

\* refresh operations that have not completed: the POSTs of refreshAccessToken /
\* refreshTokenSilently still in the pipeline, and the calls of handleTokenRefresh
PipelineRefreshes(w) ==
  {s \in DOMAIN w.reqs : w.reqs[s].kind \in RefreshKinds /\ w.reqs[s].st \in {"sent", "parked", "refreshing"}}
RefreshesInFlight(w) == Cardinality(PipelineRefreshes(w)) + Cardinality(w.rcalls)
\* refresh network calls awaiting their response
OutstandingRefreshCalls(w) ==
  Cardinality({s \in DOMAIN w.reqs : w.reqs[s].kind \in RefreshKinds /\ w.reqs[s].st = "sent"})
    + Cardinality(w.rcalls)

\* refreshAccessToken (the closure of the current render: state is w.auth)
refreshAccessToken(w) ==
  IF w.auth.refreshToken = NoToken \/ w.auth.isRefreshing
  THEN [w EXCEPT !.h.calls = Append(@, [inFlight |-> RefreshesInFlight(w), ret |-> "null",
                                         rt |-> NoToken, changed |-> {}, kept |-> TRUE])]
  ELSE LET w1 == dispatch(w, Act("REFRESH_START"))
           w2 == send(w1, "proactive",
                      [NoTokenData EXCEPT !.refreshToken = w.auth.refreshToken],
                      w.auth.userInfo)
       IN [w2 EXCEPT !.h.calls = Append(@, [inFlight |-> RefreshesInFlight(w), ret |-> "pending",
                                             rt |-> w.auth.refreshToken,
                                             changed |-> {f \in DOMAIN w.auth : w1.auth[f] # w.auth[f]},
                                             kept |-> <<w2.lsToken, w2.lsUser>> = <<w.lsToken, w.lsUser>>])]

\* (variant: the LOGOUT dispatch without clearStoredAuth)
logout_KeepStore(w) == dispatch(w, Act("LOGOUT"))

\* logout
logout(w) == dispatch(clearStoredAuth(w), Act("LOGOUT"))

\* (variant: the refresh window tested with < instead of <=)
ExpiryEffect_Strict(w) ==
  LET c == [w EXCEPT !.timer = NoTime]
      expiresAt == c.auth.tokenExpiresAt
      timeUntilExpiry == expiresAt - now
      log(x, branch) ==
        [x EXCEPT !.h.effs = Append(@, [timeUntilExpiry |-> timeUntilExpiry, branch |-> branch,
                                        wasRefreshing |-> c.auth.isRefreshing,
                                        issued |-> x.h.issued - c.h.issued,
                                        inFlight |-> RefreshesInFlight(x),
                                        timer |-> x.timer])]
  IN IF ~c.auth.isAuthenticated \/ expiresAt = NoTime \/ expiresAt = 0
        \/ c.auth.refreshToken = NoToken
     THEN c
     ELSE IF timeUntilExpiry < refreshThreshold /\ timeUntilExpiry > 0
     THEN log(refreshAccessToken(c), "refresh")
     ELSE IF timeUntilExpiry <= 0
     THEN log(logout(c), "logout")
     ELSE log([c EXCEPT !.timer = now + (timeUntilExpiry - refreshThreshold)], "timer")

\* The token-expiry effect. Its cleanup (clearTimeout) runs first whenever the
\* effect re-runs.
ExpiryEffect(w) ==
  LET c == [w EXCEPT !.timer = NoTime]
      expiresAt == c.auth.tokenExpiresAt
      timeUntilExpiry == expiresAt - now
      log(x, branch) ==
        [x EXCEPT !.h.effs = Append(@, [timeUntilExpiry |-> timeUntilExpiry, branch |-> branch,
                                        wasRefreshing |-> c.auth.isRefreshing,
                                        issued |-> x.h.issued - c.h.issued,
                                        inFlight |-> RefreshesInFlight(x),
                                        timer |-> x.timer])]
  IN IF ~c.auth.isAuthenticated \/ expiresAt = NoTime \/ expiresAt = 0
        \/ c.auth.refreshToken = NoToken
     THEN c
     ELSE IF timeUntilExpiry <= refreshThreshold /\ timeUntilExpiry > 0
     THEN log(refreshAccessToken(c), "refresh")
     ELSE IF timeUntilExpiry <= 0
     THEN log(logout(c), "logout")
     ELSE log([c EXCEPT !.timer = now + (timeUntilExpiry - refreshThreshold)], "timer")

\* dependency array of the expiry effect; refreshAccessToken is re-created when
\* state.refreshToken, state.isRefreshing or state.userInfo change
Deps(a) == <<a.tokenExpiresAt, a.isAuthenticated, a.refreshToken, a.isRefreshing, a.userInfo>>

\* React commit after a task: the effect re-runs while its dependencies differ
\* from those of the previous render.
RECURSIVE Render(_, _)
Render(prev, w) ==
  IF Deps(prev) = Deps(w.auth) THEN w ELSE Render(w.auth, ExpiryEffect(w))

\* (variant: the commit does not re-run the expiry effect)
Commit_NoEffect(w) ==
  [w EXCEPT !.h.rendered = [auth |-> w.auth, lsToken |-> w.lsToken, lsUser |-> w.lsUser]]

Commit(w) ==
  Render(auth, [w EXCEPT !.h.rendered = [auth |-> w.auth, lsToken |-> w.lsToken,
                                         lsUser |-> w.lsUser]])

\* ------------------------------------------------- the callers' continuations
\* What runs when the promise of request r settles: the code after the await
\* in refreshAccessToken, refreshTokenSilently and login. res is "ok" or the
\* rejection; tk is the access token of the response body, if any; given is 0
\* when a refresh that produced no token settles the request, -1 otherwise.
TokenDataOf(tk) ==
  [accessToken |-> tk, refreshToken |-> tk.id, expiresAt |-> parseTokenExpiry(tk, now)]

settle(w, r, res, tk, given) ==
  LET q == w.reqs[r]
      d == [w EXCEPT !.reqs[r] = FreeReq,
                     !.h.settled = @ \cup {[r |-> r, kind |-> q.kind, res |-> res,
                                            given |-> given, capTd |-> q.capTd]}]
      td == TokenDataOf(tk)
  IN CASE q.kind = "proactive" /\ res = "ok" ->
            LET d1 == IF q.capUser # NoUser THEN storeTokenData(d, td, q.capUser) ELSE d
                d2 == dispatch(d1, ActTd("REFRESH_SUCCESS", td, NoUser))
            IN [d2 EXCEPT !.h.succeeded = @ \cup {"proactive"}]
       [] q.kind = "proactive" /\ res # "ok" ->
            LET d1 == clearStoredAuth(dispatch(d, Act("REFRESH_FAILURE")))
            IN [d1 EXCEPT !.h.failed = @ \cup {"proactive"}]
       [] q.kind = "silent" /\ res = "ok" ->
            LET userInfo == IF d.lsUser # NoUser THEN d.lsUser ELSE EmptyUser
                d1 == dispatch(d, ActTd("RESTORE_SESSION", td, userInfo))
                d2 == storeTokenData(d1, td, userInfo)
            IN [d2 EXCEPT !.h.succeeded = @ \cup {"silent"}]
       [] q.kind = "silent" /\ res # "ok" ->
            [clearStoredAuth(d) EXCEPT !.h.failed = @ \cup {"silent"}]
       [] q.kind = "login" /\ res = "ok" ->
            send([d EXCEPT !.lsToken = td], "me", td, NoUser)
       [] q.kind = "login" /\ res # "ok" ->
            [dispatch(d, ActMsg("LOGIN_FAILURE", res)) EXCEPT !.h.login = "failed"]
       [] q.kind = "me" /\ res = "ok" ->
            LET d1 == [d EXCEPT !.lsUser = User1]
            IN [dispatch(d1, ActTd("LOGIN_SUCCESS", q.capTd, User1)) EXCEPT !.h.login = "ok"]
       [] q.kind = "me" /\ res # "ok" ->
            [dispatch(d, ActMsg("LOGIN_FAILURE", res)) EXCEPT !.h.login = "failed"]
       [] OTHER -> d

\* --------------------------------------------------------------- AxiosClient
\* (variant: a request that finds a refresh in flight starts its own call)
createRetryPromise_NoShare(w, r) ==
  [w EXCEPT !.rcalls = @ \cup {[rt |-> getStoredRefreshToken(w), by |-> r]},
            !.reqs[r].st = "refreshing", !.reqs[r].started = @ + 1,
            !.h.issued = @ + 1]

\* createRetryPromise: park the request until the refresh in flight completes
createRetryPromise(w, r) ==
  [w EXCEPT !.subs = Append(@, r), !.reqs[r].st = "parked",
            !.reqs[r].joined = @ + 1]

\* (variant: the callbacks are called from the last one pushed to the first)
RECURSIVE notifyResolved_Reverse(_, _, _)
notifyResolved_Reverse(w, subs, tk) ==
  IF subs = <<>> THEN w
  ELSE notifyResolved_Reverse(resend(w, subs[Len(subs)], tk), SubSeq(subs, 1, Len(subs) - 1), tk)

\* notifySubscribers(token): the callbacks in the order they were pushed
RECURSIVE notifyResolved(_, _, _)
notifyResolved(w, subs, tk) ==
  IF subs = <<>> THEN w ELSE notifyResolved(resend(w, Head(subs), tk), Tail(subs), tk)

RECURSIVE notifyRejected(_, _)
notifyRejected(w, subs) ==
  IF subs = <<>> THEN w
  ELSE notifyRejected(settle([w EXCEPT !.h.resumed = @ \cup {[r |-> Head(subs), given |-> 0]},
                                       !.h.order = Append(@, Head(subs))],
                             Head(subs), "refreshFailed", NoAccess, 0),
                      Tail(subs))

\* (variant: the catch block does not call notifySubscribers(null))
refreshCatch_NoNotify(w, c) ==
  LET w1 == clearStoredAuth(w)
      w2 == dispatchEvent(w1, "auth:logout", NoTokenData)
      w3 == [w2 EXCEPT !.isRefreshing = FALSE, !.subs = <<>>, !.rcalls = @ \ {c},
                       !.h.failed = @ \cup {"reactive"}]
  IN settle([w3 EXCEPT !.h.resumed = @ \cup {[r |-> c.by, given |-> 0]},
                       !.h.order = Append(@, c.by)],
            c.by, "refreshError", NoAccess, 0)

\* handleTokenRefresh, catch and finally blocks. notifySubscribers(null) only
\* rejects the parked promises; their callers' continuations, and that of the
\* request that started the refresh, run as microtasks after the finally block.
refreshCatch(w, c) ==
  LET w1 == clearStoredAuth(w)
      w2 == dispatchEvent(w1, "auth:logout", NoTokenData)
      w3 == [w2 EXCEPT !.isRefreshing = FALSE, !.subs = <<>>, !.rcalls = @ \ {c},
                       !.h.failed = @ \cup {"reactive"}]
      w4 == notifyRejected(w3, w.subs)
  IN settle([w4 EXCEPT !.h.resumed = @ \cup {[r |-> c.by, given |-> 0]},
                       !.h.order = Append(@, c.by)],
            c.by, "refreshError", NoAccess, 0)

\* handleTokenRefresh up to the await of axios.post('/identity/refresh')
handleTokenRefresh(w, r) ==
  IF w.isRefreshing THEN createRetryPromise(w, r)
  ELSE LET w1 == [w EXCEPT !.isRefreshing = TRUE]
           refreshToken == getStoredRefreshToken(w1)
           c == [rt |-> refreshToken, by |-> r]
       IN IF refreshToken = NoToken
          THEN refreshCatch([w1 EXCEPT !.reqs[r].st = "refreshing"], c)
          ELSE [w1 EXCEPT !.rcalls = @ \cup {c},
                          !.reqs[r].st = "refreshing", !.reqs[r].started = @ + 1,
                          !.h.issued = @ + 1]

\* (variant: handleTokenRefresh without its finally block)
refreshThen_NoFinally(w, c, tk) ==
  LET tokenData == TokenDataOf(tk)
      w1 == [w EXCEPT !.lsToken = tokenData]
      w2 == notifyResolved(w1, w1.subs, tk)
      w3 == dispatchEvent(w2, "auth:tokenRefreshed", tokenData)
      w4 == resend(w3, c.by, tk)
  IN [w4 EXCEPT !.rcalls = @ \ {c}, !.h.succeeded = @ \cup {"reactive"}]

\* (variant: the parked requests are notified before the store is updated)
refreshThen_NotifyFirst(w, c, tk) ==
  LET tokenData == TokenDataOf(tk)
      w1 == notifyResolved(w, w.subs, tk)
      w2 == [w1 EXCEPT !.lsToken = tokenData]
      w3 == dispatchEvent(w2, "auth:tokenRefreshed", tokenData)
      w4 == resend(w3, c.by, tk)
  IN [w4 EXCEPT !.isRefreshing = FALSE, !.subs = <<>>, !.rcalls = @ \ {c},
                !.h.succeeded = @ \cup {"reactive"}]

\* handleTokenRefresh after the refresh call returned tk
refreshThen(w, c, tk) ==
  LET tokenData == TokenDataOf(tk)
      w1 == [w EXCEPT !.lsToken = tokenData]
      w2 == notifyResolved(w1, w1.subs, tk)
      w3 == dispatchEvent(w2, "auth:tokenRefreshed", tokenData)
      w4 == resend(w3, c.by, tk)
  IN [w4 EXCEPT !.isRefreshing = FALSE, !.subs = <<>>, !.rcalls = @ \ {c},
                !.h.succeeded = @ \cup {"reactive"}]

\* response interceptor, rejected branch with status 401
onUnauthorized(w, r) ==
  IF ~w.reqs[r].retry
  THEN IF w.isRefreshing
       THEN createRetryPromise(w, r)
       ELSE LET w1 == [w EXCEPT !.reqs[r].retry = TRUE]
            IN IF hasRefreshToken(w1) THEN handleTokenRefresh(w1, r)
               ELSE settle(w1, r, "unauthorized", NoAccess, -1)
  ELSE settle(w, r, "unauthorized", NoAccess, -1)

\* ------------------------------------------------- NotificationsProvider
\* A Notification is its id and its isRead flag; the other fields are carried
\* along unread by the code.
Ids == 1..NumIds
Notifications == [id : Ids, isRead : BOOLEAN]

notificationsInitialState ==
  [notifications |-> <<>>, unreadCount |-> 0, isLoading |-> TRUE,
   isConnected |-> FALSE, error |-> "null"]

\* payload.filter((n) => !n.isRead).length
UnreadLength(list) == Cardinality({i \in DOMAIN list : ~list[i].isRead})

\* (variant: SET_NOTIFICATIONS keeps the counter)
SET_NOTIFICATIONS_KeepCount(state, payload) ==
  [state EXCEPT !.isLoading = FALSE, !.notifications = payload]

\* notificationsReducer, case SET_NOTIFICATIONS
SET_NOTIFICATIONS(state, payload) ==
  [state EXCEPT !.isLoading = FALSE, !.notifications = payload,
                !.unreadCount = UnreadLength(payload)]

\* (variant: ADD_NOTIFICATION drops a payload whose id is already listed)
ADD_NOTIFICATION_Dedupe(state, payload) ==
  IF \E i \in DOMAIN state.notifications : state.notifications[i].id = payload.id
  THEN state
  ELSE [state EXCEPT !.notifications = <<payload>> \o @, !.unreadCount = @ + 1]

\* notificationsReducer, case ADD_NOTIFICATION
ADD_NOTIFICATION(state, payload) ==
  [state EXCEPT !.notifications = <<payload>> \o @, !.unreadCount = @ + 1]

\* (variant: MARK_AS_READ decrements whenever the id is listed)
MARK_AS_READ_Always(state, payload) ==
  LET listed == \E i \in DOMAIN state.notifications : state.notifications[i].id = payload
      updatedNotifications ==
        [i \in DOMAIN state.notifications |->
           IF state.notifications[i].id = payload /\ ~state.notifications[i].isRead
           THEN [state.notifications[i] EXCEPT !.isRead = TRUE]
           ELSE state.notifications[i]]
  IN [state EXCEPT !.notifications = updatedNotifications,
                   !.unreadCount = IF listed THEN @ - 1 ELSE @]

\* notificationsReducer, case MARK_AS_READ
MARK_AS_READ(state, payload) ==
  LET wasUnread == \E i \in DOMAIN state.notifications :
                      state.notifications[i].id = payload /\ ~state.notifications[i].isRead
      updatedNotifications ==
        [i \in DOMAIN state.notifications |->
           IF state.notifications[i].id = payload /\ ~state.notifications[i].isRead
           THEN [state.notifications[i] EXCEPT !.isRead = TRUE]
           ELSE state.notifications[i]]
  IN [state EXCEPT !.notifications = updatedNotifications,
                   !.unreadCount = IF wasUnread THEN @ - 1 ELSE @]

\* notificationsReducer, case MARK_ALL_AS_READ
MARK_ALL_AS_READ(state) ==
  [state EXCEPT !.notifications = [i \in DOMAIN @ |-> [@[i] EXCEPT !.isRead = TRUE]],
                !.unreadCount = 0]

\* (variant: SET_ERROR also discards the list)
SET_ERROR_Reset(state, payload) ==
  [state EXCEPT !.isLoading = FALSE, !.error = payload,
                !.notifications = <<>>, !.unreadCount = 0]

\* notificationsReducer, case SET_ERROR
SET_ERROR(state, payload) == [state EXCEPT !.isLoading = FALSE, !.error = payload]

\* notificationsReducer; a is [type, list, item, id, flag, msg]
notificationsReducer(state, a) ==
  CASE a.type = "SET_LOADING" -> [state EXCEPT !.isLoading = a.flag]
    [] a.type = "SET_NOTIFICATIONS" -> SET_NOTIFICATIONS(state, a.list)
    [] a.type = "ADD_NOTIFICATION" -> ADD_NOTIFICATION(state, a.item)
    [] a.type = "MARK_AS_READ" -> MARK_AS_READ(state, a.id)
    [] a.type = "MARK_ALL_AS_READ" -> MARK_ALL_AS_READ(state)
    [] a.type = "SET_CONNECTION_STATUS" -> [state EXCEPT !.isConnected = a.flag]
    [] a.type = "SET_ERROR" -> SET_ERROR(state, a.msg)
    [] OTHER -> state

NAct(type) ==
  [type |-> type, list |-> <<>>, item |-> [id |-> 0, isRead |-> FALSE], id |-> 0,
   flag |-> FALSE, msg |-> "null"]

\* A remote call in flight: the GET of fetchNotifications, the POST of
\* markAsRead, or the Promise.all of markAllAsRead (the ids whose POST has not
\* been answered yet, and whether the Promise.all has already rejected).
FetchCall == [kind |-> "fetch", ids |-> <<>>, rejected |-> FALSE]
MarkCall(id) == [kind |-> "mark", ids |-> <<id>>, rejected |-> FALSE]
MarkAllCall(ids) == [kind |-> "markAll", ids |-> ids, rejected |-> FALSE]

\* What the last task did: the operation, its argument, the mark-read POSTs it
\* issued, how many unread entries carried the id of a MARK_AS_READ, and how
\* many entries a snapshot replaced.
NoNH == [op |-> "none", id |-> 0, list |-> <<>>, issued |-> <<>>, hits |-> 0, had |-> 0]

\* A SignalRService instance: this.connection (null or a HubConnection in one
\* of its states), the token its getAccessToken closure captured, the calls of
\* the instance that have not returned, and what the instance has been through.
NoConnection ==
  [connection |-> "null", state |-> "Disconnected",
   captured |-> NoAccess,   \* token of the render whose effect created the instance
   starting |-> FALSE,      \* start() is at its await of connection.start()
   stopping |-> FALSE,      \* stop() is at its await of connection.stop()
   startJoin |-> FALSE,     \* start() is at its await of joinUserGroup()
   invokes |-> 0,           \* JoinUserGroup invocations awaiting their result
   listening |-> FALSE,     \* a ReceiveNotification handler is registered
   connects |-> 0,          \* times connection.start() resolved
   reconnects |-> 0,        \* reconnecting -> reconnected transitions
   losses |-> 0,            \* times the connection was lost
   joins |-> 0,             \* JoinUserGroup invocations made
   retries |-> 0,           \* previousRetryCount of the reconnect in progress
   delay |-> 0]             \* delay the retry policy returned last

NoPH ==
  [op |-> "none", invoked |-> 0, stateAtInvoke |-> "none",
   created |-> FALSE,       \* the task ran new SignalRService(...)
   stopCalled |-> FALSE,    \* the task called stop() on the instance of the ref
   used |-> NoAccess,       \* token accessTokenFactory returned for a (re)connect
   reported |-> <<>>,       \* values passed to onConnectionStateChanged, in order
   delivered |-> {}]        \* instances whose ReceiveNotification handler ran

\* no SignalRService has been created
NoService ==
  /\ svc = NoConnection
  /\ held = FALSE
  /\ retired = NoConnection
  /\ ph = NoPH

\* NotificationsProvider is mounted: nothing fetched, nothing in flight
NotifMount ==
  /\ nstate = notificationsInitialState
  /\ ncalls = <<>>
  /\ nh = NoNH
  /\ nrender = notificationsInitialState.notifications

RemoveAt(seq, i) == SubSeq(seq, 1, i - 1) \o SubSeq(seq, i + 1, Len(seq))

\* ------------------------------------------------------------------ actions
Corrupt == 3                 \* a stored 'userInfo' that JSON.parse rejects

\* The history keeps the state before the task and the state React rendered
\* only for the tasks whose properties read them: a logout, the mount, a
\* refresh success.
NoPre == [auth |-> initialState, lsToken |-> NoTokenData, lsUser |-> NoUser, timer |-> NoTime]
NoRendered == [auth |-> initialState, lsToken |-> NoTokenData, lsUser |-> NoUser]
NoHistory == [World.h EXCEPT !.pre = NoPre, !.rendered = NoRendered]

Apply(op, w) ==
  /\ ~w.overflow
  /\ auth' = w.auth
  /\ lsToken' = w.lsToken
  /\ lsUser' = w.lsUser
  /\ timer' = w.timer
  /\ isRefreshing' = w.isRefreshing
  /\ refreshSubscribers' = w.subs
  /\ rcalls' = w.rcalls
  /\ reqs' = w.reqs
  /\ UNCHANGED <<notifvars, pushvars>>
  /\ h' = [w.h EXCEPT !.op = op,
                       !.pre = IF op \in {"logout", "restoreSession"} \/ w.h.succeeded # {}
                               THEN @ ELSE NoPre,
                       !.rendered = IF op = "restoreSession" \/ w.h.succeeded # {}
                                    THEN @ ELSE NoRendered]

\* The store a page load may find: empty, or what an earlier run left behind.
StoredTokenData(e) ==
  [accessToken |-> [id |-> StoredTokenId, exp |-> e], refreshToken |-> StoredTokenId,
   expiresAt |-> parseTokenExpiry([id |-> StoredTokenId, exp |-> e], StartTime)]
StoredChoices ==
  {NoTokenData, CorruptTokenData} \cup {StoredTokenData(e) : e \in StoredExpChoices}

Init ==
  /\ now = StartTime
  /\ booted = FALSE
  /\ auth = initialState
  /\ \E td \in StoredChoices, u \in {NoUser, User1, Corrupt} :
        /\ lsToken = td
        /\ lsUser = u
  /\ minted = 0
  /\ timer = NoTime
  /\ isRefreshing = FALSE
  /\ refreshSubscribers = <<>>
  /\ rcalls = {}
  /\ reqs = [s \in Slots |-> FreeReq]
  /\ h = NoHistory
  /\ NotifMount
  /\ NoService

\* refreshTokenSilently up to its await
refreshTokenSilently(w, refreshToken) ==
  send(w, "silent", [NoTokenData EXCEPT !.refreshToken = refreshToken], NoUser)

\* (variant: the catch block does not clear the store)
restoreSession_KeepCorrupt(w) ==
  IF w.lsToken # NoTokenData /\ w.lsUser # NoUser
  THEN IF w.lsToken = CorruptTokenData \/ w.lsUser = Corrupt
       THEN w
       ELSE IF w.lsToken.expiresAt > now
            THEN dispatch(w, ActTd("RESTORE_SESSION", w.lsToken, w.lsUser))
            ELSE refreshTokenSilently(w, w.lsToken.refreshToken)
  ELSE w

\* restoreSession (mount effect of AuthProvider)
restoreSession(w) ==
  IF w.lsToken # NoTokenData /\ w.lsUser # NoUser
  THEN IF w.lsToken = CorruptTokenData \/ w.lsUser = Corrupt
       THEN clearStoredAuth(w)
       ELSE IF w.lsToken.expiresAt > now
            THEN dispatch(w, ActTd("RESTORE_SESSION", w.lsToken, w.lsUser))
            ELSE refreshTokenSilently(w, w.lsToken.refreshToken)
  ELSE w

RestoreSession ==
  /\ ~booted
  /\ booted' = TRUE
  /\ Apply("restoreSession", Commit(restoreSession(World)))
  /\ UNCHANGED <<now, minted>>

\* time passes
Tick ==
  /\ booted
  /\ \E t \in TimePoints : t > now /\ now' = t
  /\ h' = [NoHistory EXCEPT !.op = "tick"]
  /\ UNCHANGED <<notifvars, pushvars>>
  /\ UNCHANGED <<minted, booted, auth, lsToken, lsUser, timer, isRefreshing,
                 refreshSubscribers, rcalls, reqs>>

\* the setTimeout callback of the expiry effect
TimerFire ==
  /\ timer # NoTime /\ now >= timer
  /\ Apply("timer", Commit(refreshAccessToken([World EXCEPT !.timer = NoTime])))
  /\ UNCHANGED <<now, minted, booted>>

\* login, up to the await of the POST /identity/login
login(w) == send(dispatch(w, Act("LOGIN_START")), "login", NoTokenData, NoUser)

Login ==
  /\ booted /\ ~auth.isAuthenticated /\ ~auth.isLoading
  /\ Apply("login", Commit(login(World)))
  /\ UNCHANGED <<now, minted, booted>>

\* the logout button of the header
Logout ==
  /\ booted /\ auth.isAuthenticated
  /\ Apply("logout", Commit(logout(World)))
  /\ UNCHANGED <<now, minted, booted>>

\* a page of the authenticated surface calls axiosClient.get/post
ApiCall ==
  /\ booted /\ auth.isAuthenticated
  /\ Apply("api", Commit(send(World, "api", NoTokenData, NoUser)))
  /\ UNCHANGED <<now, minted, booted>>

MintKinds == {"login", "proactive", "silent"}
RefreshCallOf(r) == IF reqs[r].kind \in RefreshKinds THEN {reqs[r].kind} ELSE {}

\* a 2xx response arrives for request r
RespondOk(r) ==
  /\ reqs[r].st = "sent"
  /\ IF reqs[r].kind \in MintKinds
     THEN /\ minted < MaxTokens
          /\ minted' = minted + 1
          /\ \E e \in ExpChoices :
               Apply("ok", Commit(settle([World EXCEPT !.h.tk = [id |-> minted + 1, exp |-> e]],
                                         r, "ok", [id |-> minted + 1, exp |-> e], -1)))
     ELSE /\ minted' = minted
          /\ Apply("ok", Commit(settle(World, r, "ok", NoAccess, -1)))
  /\ UNCHANGED <<now, booted>>

\* a 401 response arrives for request r
RespondUnauthorized(r) ==
  /\ reqs[r].st = "sent"
  /\ Apply("401", Commit(onUnauthorized([World EXCEPT !.h.callFailed = RefreshCallOf(r)], r)))
  /\ UNCHANGED <<now, minted, booted>>

\* request r fails otherwise (no response, or a status other than 401)
RespondError(r) ==
  /\ reqs[r].st = "sent"
  /\ Apply("error", Commit(settle([World EXCEPT !.h.callFailed = RefreshCallOf(r)],
                                    r, "error", NoAccess, -1)))
  /\ UNCHANGED <<now, minted, booted>>

\* the refresh call of handleTokenRefresh returns a new token pair
RefreshOk(c) ==
  /\ c \in rcalls
  /\ minted < MaxTokens
  /\ minted' = minted + 1
  /\ \E e \in ExpChoices :
       Apply("refreshOk", Commit(refreshThen([World EXCEPT !.h.tk = [id |-> minted + 1, exp |-> e]],
                                             c, [id |-> minted + 1, exp |-> e])))
  /\ UNCHANGED <<now, booted>>

\* the refresh call of handleTokenRefresh fails (rejected token or network error)
RefreshFail(c) ==
  /\ c \in rcalls
  /\ Apply("refreshFail", Commit(refreshCatch([World EXCEPT !.h.callFailed = {"reactive"}], c)))
  /\ UNCHANGED <<now, minted, booted>>

Next ==
  \/ RestoreSession
  \/ Tick
  \/ TimerFire
  \/ Login
  \/ Logout
  \/ ApiCall
  \/ \E r \in Slots : RespondOk(r)
  \/ \E r \in Slots : RespondUnauthorized(r)
  \/ \E r \in Slots : RespondError(r)
  \/ \E c \in rcalls : RefreshOk(c)
  \/ \E c \in rcalls : RefreshFail(c)

Spec == Init /\ [][Next]_vars

\* ---------------------------------------- actions of NotificationsProvider
\* useAuth() as NotificationsProvider sees it: anonymous, or a session
Session ==
  authReducer(initialState, ActTd("RESTORE_SESSION", StoredTokenData(Malformed), User1))

authrest == <<now, minted, booted, lsToken, lsUser, timer, isRefreshing,
              refreshSubscribers, rcalls, reqs, h>>

\* lists GET /api/notifications may return
Snapshots ==
  {l \in UNION {[1..n -> Notifications] : n \in 0..NumIds} :
     \A i, j \in DOMAIN l : l[i].id = l[j].id => i = j}

NApply(op, state, calls, id, list, issued) ==
  /\ nstate' = state
  /\ nrender' = state.notifications
  /\ ncalls' = calls
  /\ nh' = [op |-> op, id |-> id, list |-> list, issued |-> issued,
            hits |-> IF op = "markAsRead"
                     THEN Cardinality({i \in DOMAIN nstate.notifications :
                                         /\ nstate.notifications[i].id = id
                                         /\ ~nstate.notifications[i].isRead})
                     ELSE 0,
            had |-> IF op = "fetchOk" THEN Len(nstate.notifications) ELSE 0]
  /\ UNCHANGED pushvars

NInit ==
  /\ now = StartTime
  /\ minted = 0
  /\ booted = TRUE
  /\ auth = initialState
  /\ lsToken = NoTokenData
  /\ lsUser = NoUser
  /\ timer = NoTime
  /\ isRefreshing = FALSE
  /\ refreshSubscribers = <<>>
  /\ rcalls = {}
  /\ reqs = [s \in Slots |-> FreeReq]
  /\ h = NoHistory
  /\ NotifMount
  /\ NoService

\* isAuthenticated becomes true: the fetch effect runs fetchNotifications up
\* to its await
fetchNotifications(state) == notificationsReducer(state, [NAct("SET_LOADING") EXCEPT !.flag = TRUE])

SessionStarts ==
  /\ ~auth.isAuthenticated
  /\ Len(ncalls) < MaxCalls
  /\ auth' = Session
  /\ NApply("sessionStarts", fetchNotifications(nstate), Append(ncalls, FetchCall), 0, <<>>, <<>>)
  /\ UNCHANGED authrest

\* isAuthenticated becomes false: both effects return early
SessionEnds ==
  /\ auth.isAuthenticated
  /\ auth' = initialState
  /\ NApply("sessionEnds", nstate, ncalls, 0, <<>>, <<>>)
  /\ UNCHANGED authrest

\* the GET of fetchNotifications returns list
FetchOk(i, list) ==
  /\ ncalls[i].kind = "fetch"
  /\ NApply("fetchOk",
            notificationsReducer(nstate, [NAct("SET_NOTIFICATIONS") EXCEPT !.list = list]),
            RemoveAt(ncalls, i), 0, list, <<>>)
  /\ UNCHANGED authvars

\* the GET of fetchNotifications fails
FetchFail(i) ==
  /\ ncalls[i].kind = "fetch"
  /\ NApply("fetchFail",
            notificationsReducer(nstate, [NAct("SET_ERROR") EXCEPT !.msg = "Failed to load notifications."]),
            RemoveAt(ncalls, i), 0, <<>>, <<>>)
  /\ UNCHANGED authvars

\* handleSignalRNotification: the hub delivers a notification
handleSignalRNotification(state, id) ==
  notificationsReducer(state, [NAct("ADD_NOTIFICATION") EXCEPT !.item = [id |-> id, isRead |-> FALSE]])

OnPush(id) ==
  /\ auth.isAuthenticated
  /\ Len(nstate.notifications) < MaxLen
  /\ NApply("onPush", handleSignalRNotification(nstate, id), ncalls, id, <<>>, <<>>)
  /\ UNCHANGED authvars

\* markAsRead up to its await
markAsRead(state, notificationId) ==
  notificationsReducer(state, [NAct("MARK_AS_READ") EXCEPT !.id = notificationId])

MarkAsRead(id) ==
  /\ auth.isAuthenticated
  /\ Len(ncalls) < MaxCalls
  /\ NApply("markAsRead", markAsRead(nstate, id), Append(ncalls, MarkCall(id)), id, <<>>, <<id>>)
  /\ UNCHANGED authvars

\* the POST of markAsRead succeeds
MarkOk(i) ==
  /\ ncalls[i].kind = "mark"
  /\ NApply("markOk", nstate, RemoveAt(ncalls, i), ncalls[i].ids[1], <<>>, <<>>)
  /\ UNCHANGED authvars

\* markAsRead, catch block
markAsReadCatch(state) ==
  notificationsReducer(state, [NAct("SET_ERROR") EXCEPT !.msg = "Failed to update notification status."])

\* the POST of markAsRead fails
MarkFail(i) ==
  /\ ncalls[i].kind = "mark"
  /\ NApply("markFail", markAsReadCatch(nstate), RemoveAt(ncalls, i), ncalls[i].ids[1], <<>>, <<>>)
  /\ UNCHANGED authvars

\* markAllAsRead: state.notifications.filter((n) => !n.isRead).map((n) => n.id)
RECURSIVE unreadIds(_)
unreadIds(list) ==
  IF list = <<>> THEN <<>>
  ELSE IF ~Head(list).isRead THEN <<Head(list).id>> \o unreadIds(Tail(list))
       ELSE unreadIds(Tail(list))

\* markAllAsRead up to its await: the callback is the one of the last render,
\* its state.notifications the list that render saw
MarkAllAsRead ==
  /\ auth.isAuthenticated
  /\ Len(ncalls) < MaxCalls
  /\ LET ids == unreadIds(nrender)
     IN IF Len(ids) = 0
        THEN NApply("markAllAsRead", nstate, ncalls, 0, <<>>, <<>>)
        ELSE NApply("markAllAsRead", notificationsReducer(nstate, NAct("MARK_ALL_AS_READ")),
                    Append(ncalls, MarkAllCall(ids)), 0, <<>>, ids)
  /\ UNCHANGED authvars

\* one POST of the Promise.all of markAllAsRead is answered
Answered(i, j) ==
  IF Len(ncalls[i].ids) = 1 THEN RemoveAt(ncalls, i)
  ELSE [ncalls EXCEPT ![i].ids = RemoveAt(@, j)]

MarkAllOk(i, j) ==
  /\ ncalls[i].kind = "markAll"
  /\ NApply("markAllOk", nstate, Answered(i, j), ncalls[i].ids[j], <<>>, <<>>)
  /\ UNCHANGED authvars

\* one POST of the Promise.all fails: the first rejection reaches the catch
MarkAllFail(i, j) ==
  /\ ncalls[i].kind = "markAll"
  /\ LET calls == IF Len(ncalls[i].ids) = 1 THEN RemoveAt(ncalls, i)
                  ELSE [ncalls EXCEPT ![i].ids = RemoveAt(@, j), ![i].rejected = TRUE]
     IN IF ncalls[i].rejected
        THEN NApply("markAllFail", nstate, calls, ncalls[i].ids[j], <<>>, <<>>)
        ELSE NApply("markAllFail",
                    notificationsReducer(nstate, [NAct("SET_ERROR") EXCEPT !.msg = "Failed to update notifications."]),
                    calls, ncalls[i].ids[j], <<>>, <<>>)
  /\ UNCHANGED authvars

\* the connection-state callback of the SignalR service
ConnectionStateChanged(isConnected) ==
  /\ auth.isAuthenticated
  /\ nstate.isConnected # isConnected
  /\ NApply("connection",
            notificationsReducer(nstate, [NAct("SET_CONNECTION_STATUS") EXCEPT !.flag = isConnected]),
            ncalls, 0, <<>>, <<>>)
  /\ UNCHANGED authvars

NNext ==
  \/ SessionStarts
  \/ SessionEnds
  \/ \E i \in DOMAIN ncalls, list \in Snapshots : FetchOk(i, list)
  \/ \E i \in DOMAIN ncalls : FetchFail(i)
  \/ \E id \in Ids : OnPush(id)
  \/ \E id \in Ids : MarkAsRead(id)
  \/ \E i \in DOMAIN ncalls : MarkOk(i)
  \/ \E i \in DOMAIN ncalls : MarkFail(i)
  \/ MarkAllAsRead
  \/ \E i \in DOMAIN ncalls : \E j \in DOMAIN ncalls[i].ids : MarkAllOk(i, j)
  \/ \E i \in DOMAIN ncalls : \E j \in DOMAIN ncalls[i].ids : MarkAllFail(i, j)
  \/ \E b \in BOOLEAN : ConnectionStateChanged(b)

NotifSpec == NInit /\ [][NNext]_vars

\* ------------------------------------------- a render that has not happened
\* A dispatch made outside a React event handler (the SignalR callback) is
\* rendered in a later task: until then the callbacks of the last render are
\* the ones the page calls.
LagIds == 1..(NumIds + 1)   \* notification ids of the runs with a pending render

\* handleSignalRNotification has dispatched, the render is pending
PushPending(id) ==
  /\ auth.isAuthenticated
  /\ Len(nstate.notifications) < MaxLen
  /\ nstate' = handleSignalRNotification(nstate, id)
  /\ nh' = [NoNH EXCEPT !.op = "pushPending", !.id = id]
  /\ UNCHANGED <<ncalls, nrender>>
  /\ UNCHANGED <<authvars, pushvars>>

\* the pending render: useCallback re-creates markAllAsRead for the new list
RenderPending ==
  /\ nrender # nstate.notifications
  /\ nrender' = nstate.notifications
  /\ nh' = [NoNH EXCEPT !.op = "render"]
  /\ UNCHANGED <<nstate, ncalls>>
  /\ UNCHANGED <<authvars, pushvars>>

LNext ==
  \/ SessionStarts
  \/ \E i \in DOMAIN ncalls, list \in Snapshots : FetchOk(i, list)
  \/ \E id \in LagIds : PushPending(id)
  \/ RenderPending
  \/ MarkAllAsRead
  \/ \E i \in DOMAIN ncalls : \E j \in DOMAIN ncalls[i].ids : MarkAllOk(i, j)
  \/ \E i \in DOMAIN ncalls : \E j \in DOMAIN ncalls[i].ids : MarkAllFail(i, j)

LagSpec == NInit /\ [][LNext]_vars

\* ---------------------------------------- the request pipeline on its own
\* An authenticated session whose pages call the API: the runs of AxiosClient
\* with no login, logout or timer in between.
PipeInit ==
  /\ now = StartTime
  /\ minted = 0
  /\ booted = TRUE
  /\ auth = Session
  /\ lsToken = StoredTokenData(Malformed)
  /\ lsUser = User1
  /\ timer = Session.tokenExpiresAt - refreshThreshold
  /\ isRefreshing = FALSE
  /\ refreshSubscribers = <<>>
  /\ rcalls = {}
  /\ reqs = [s \in PipeSlots |-> FreeReq]
  /\ h = NoHistory
  /\ NotifMount
  /\ NoService

PipeNext ==
  \/ ApiCall
  \/ \E r \in PipeSlots : RespondOk(r)
  \/ \E r \in PipeSlots : RespondUnauthorized(r)
  \/ \E r \in PipeSlots : RespondError(r)
  \/ \E c \in rcalls : RefreshOk(c)
  \/ \E c \in rcalls : RefreshFail(c)

PipeSpec == PipeInit /\ [][PipeNext]_vars

\* ------------------------------------------------ parseTokenExpiry on its own
\* The tokens the identity service may return: any exp claim up to MaxExp, or
\* a token that cannot be decoded.
ParseExps == (0..MaxExp) \cup {Malformed}

\* handleTokenRefresh from the response to localStorage.setItem: the tokenData
\* built from the access token of the response is stored
StoreRefreshed(tk) ==
  /\ lsToken' = TokenDataOf(tk)
  /\ h' = [NoHistory EXCEPT !.op = "parse", !.tk = tk]
  /\ UNCHANGED <<now, minted, booted, auth, lsUser, timer, isRefreshing,
                 refreshSubscribers, rcalls, reqs>>
  /\ UNCHANGED <<notifvars, pushvars>>

ParseNext ==
  \/ Tick
  \/ \E e \in ParseExps : StoreRefreshed([id |-> 1, exp |-> e])

ParseSpec == NInit /\ [][ParseNext]_vars

\* ------------------------------------------------------------ SignalRService
\* Handlers take and return c = [svc, held, retired, nstate, ph] and act on c.svc.

\* getAccessToken as NotificationsProvider passes it: () => token
getAccessToken(inst) == inst.captured

\* accessTokenFactory of withUrl
accessTokenFactory(inst) == getAccessToken(inst)

\* (variant: the delay is not capped)
nextRetryDelayInMilliseconds_NoCap(previousRetryCount) ==
  (2 ^ previousRetryCount) * 1000

\* nextRetryDelayInMilliseconds of withAutomaticReconnect
nextRetryDelayInMilliseconds(previousRetryCount) ==
  LET delay == (2 ^ previousRetryCount) * 1000
  IN IF delay <= 60000 THEN delay ELSE 60000

\* joinUserGroup up to its await
joinUserGroup(c) ==
  IF c.svc.connection = "null" \/ c.svc.state # "Connected" THEN c
  ELSE [c EXCEPT !.svc.invokes = @ + 1, !.svc.joins = @ + 1,
                 !.ph.invoked = @ + 1, !.ph.stateAtInvoke = c.svc.state]

\* the callback NotificationsProvider sets with setConnectionStateChangeCallback
onConnectionStateChanged(c, isConnected) ==
  [c EXCEPT !.nstate = notificationsReducer(@, [NAct("SET_CONNECTION_STATUS") EXCEPT !.flag = isConnected]),
            !.ph.reported = Append(@, isConnected)]

\* (variant: the reconnected handler does not join the group again)
onreconnected_NoJoin(c) == onConnectionStateChanged(c, TRUE)

\* connection.onreconnected handler
onreconnected(c) == joinUserGroup(onConnectionStateChanged(c, TRUE))

\* (variant: the reconnecting handler does not report)
onreconnecting_Silent(c) == c

\* connection.onreconnecting handler
onreconnecting(c) == onConnectionStateChanged(c, FALSE)

\* connection.onclose handler
onclose(c) == onConnectionStateChanged(c, FALSE)

\* (variant: stop() without the test of this.connection)
stop_NoGuard(c) ==
  [c EXCEPT !.svc.stopping = TRUE, !.svc.state = "Disconnecting"]

\* stop() to its await of connection.stop()
stop(c) ==
  IF c.svc.connection = "null" THEN c
  ELSE [c EXCEPT !.svc.stopping = TRUE, !.svc.state = "Disconnecting"]

\* start() to its await of connection.start(): the connection is built with
\* the factory and the retry policy, and the negotiation asks for the token
start(c) ==
  IF c.svc.connection # "null" THEN c
  ELSE [c EXCEPT !.svc.connection = "built", !.svc.state = "Connecting",
                 !.svc.starting = TRUE, !.ph.used = accessTokenFactory(c.svc)]

\* an instance none of whose calls is outstanding and that has no connection
Idle(inst) ==
  /\ inst.connection = "null"
  /\ ~inst.starting /\ ~inst.stopping /\ ~inst.startJoin
  /\ inst.invokes = 0

\* (variant: the effect has no cleanup function)
SignalRCleanup_KeepRunning(c) ==
  [c EXCEPT !.retired = IF Idle(c.svc) THEN c.retired ELSE c.svc,
            !.svc = NoConnection, !.held = FALSE]

\* cleanup function of the SignalR effect: service.stop() and the ref is
\* nulled; the instance lives on until its calls have returned
SignalRCleanup(c) ==
  LET c1 == [stop(c) EXCEPT !.ph.stopCalled = TRUE]
  IN [c1 EXCEPT !.retired = IF Idle(c1.svc) THEN c.retired ELSE c1.svc,
                !.svc = NoConnection, !.held = FALSE]

\* body of the SignalR effect for the AuthState a of the render
SignalRBody(a, c) ==
  IF ~a.isAuthenticated \/ a.token = NoAccess
  THEN IF c.held THEN [stop(c) EXCEPT !.held = FALSE, !.ph.stopCalled = TRUE]
       ELSE c
  ELSE LET c1 == [c EXCEPT !.svc = [NoConnection EXCEPT !.captured = a.token],
                           !.held = TRUE, !.ph.created = TRUE]
       IN start(c1)

\* the SignalR effect after a render: it re-runs when isAuthenticated or token
\* differ from the previous render (handleSignalRNotification never changes)
SignalREffect(prev, a, c) ==
  IF <<prev.isAuthenticated, prev.token>> = <<a.isAuthenticated, a.token>> THEN c
  ELSE SignalRBody(a, IF prev.isAuthenticated /\ prev.token # NoAccess
                      THEN SignalRCleanup(c) ELSE c)

PWorld == [svc |-> svc, held |-> held, retired |-> retired, nstate |-> nstate, ph |-> NoPH]

\* the instance an event belongs to: the one of the ref, or the one cleaned up
Instances == {"svc", "retired"}
Swap(c) == [c EXCEPT !.svc = c.retired, !.retired = c.svc]
At(k) == IF k = "svc" THEN PWorld ELSE Swap(PWorld)

PApply(op, c) ==
  /\ svc' = c.svc
  /\ held' = c.held
  /\ retired' = IF Idle(c.retired) THEN NoConnection ELSE c.retired
  /\ nstate' = c.nstate
  /\ nrender' = c.nstate.notifications
  /\ ph' = [c.ph EXCEPT !.op = op]
  /\ UNCHANGED <<ncalls, nh>>

PApplyAt(k, op, c) == PApply(op, IF k = "svc" THEN c ELSE Swap(c))

\* AuthState changes by action a and NotificationsProvider renders; an
\* instance that is cleaned up needs the place of the previous one
SessionStep(op, a) ==
  LET next == authReducer(auth, a)
      c == SignalREffect(auth, next, PWorld)
  IN /\ auth' = next
     /\ (c.retired # retired => Idle(retired))
     /\ PApply(op, c)
     /\ UNCHANGED <<now, booted, lsToken, lsUser, timer, isRefreshing,
                    refreshSubscribers, rcalls, reqs, h>>

\* useAuth() gets a session (login or restored session)
ServiceStart ==
  /\ ~auth.isAuthenticated
  /\ SessionStep("start", ActTd("RESTORE_SESSION", StoredTokenData(Malformed), User1))
  /\ UNCHANGED minted

\* useAuth() loses the session (logout, or a failed refresh)
ServiceStop ==
  /\ auth.isAuthenticated
  /\ \E type \in {"LOGOUT", "REFRESH_FAILURE"} : SessionStep("stop", Act(type))
  /\ UNCHANGED minted

\* a refresh starts: isRefreshing is set
RefreshStarts ==
  /\ auth.isAuthenticated /\ ~auth.isRefreshing
  /\ SessionStep("refreshStart", Act("REFRESH_START"))
  /\ UNCHANGED minted

\* a refresh succeeds: AuthState gets the new token
TokenRefreshed ==
  /\ auth.isAuthenticated
  /\ minted < MaxTokens
  /\ minted' = minted + 1
  /\ SessionStep("tokenRefreshed",
                 ActTd("REFRESH_SUCCESS", TokenDataOf([id |-> minted + 1, exp |-> Malformed]), NoUser))

\* connection.start() resolves: start() goes on to its await of joinUserGroup()
StartOk(k) ==
  /\ At(k).svc.starting /\ At(k).svc.state = "Connecting"
  /\ LET c1 == [At(k) EXCEPT !.svc.state = "Connected", !.svc.starting = FALSE,
                             !.svc.connects = @ + 1]
         c2 == joinUserGroup(onConnectionStateChanged(c1, TRUE))
     IN PApplyAt(k, "startOk", [c2 EXCEPT !.svc.startJoin = (c2.svc.invokes > c1.svc.invokes)])
  /\ UNCHANGED authvars

\* connection.start() rejects: catch of start() and catch of the provider
StartFail(k) ==
  /\ At(k).svc.starting /\ At(k).svc.state \in {"Connecting", "Disconnecting"}
  /\ LET c1 == [At(k) EXCEPT !.svc.state = "Disconnected", !.svc.starting = FALSE,
                             !.svc.connection = "null"]
     IN PApplyAt(k, "startFail",
                 [c1 EXCEPT !.nstate = notificationsReducer(@, [NAct("SET_ERROR") EXCEPT
                                          !.msg = "Failed to connect to notification service."])])
  /\ UNCHANGED authvars

\* a JoinUserGroup invocation returns (its failure is caught and logged); when
\* it is the one start() awaits, start() resolves and the provider registers
\* the ReceiveNotification handler on this.connection
JoinReturns(k) ==
  /\ At(k).svc.invokes > 0
  /\ \E first \in BOOLEAN :
       /\ first => At(k).svc.startJoin
       /\ (At(k).svc.invokes = 1 /\ At(k).svc.startJoin) => first
       /\ PApplyAt(k, "joinReturns",
                   [At(k) EXCEPT !.svc.invokes = @ - 1,
                                 !.svc.startJoin = IF first THEN FALSE ELSE @,
                                 !.svc.listening = IF first /\ At(k).svc.connection # "null"
                                                   THEN TRUE ELSE @])
  /\ UNCHANGED authvars

\* the transport drops: the retry policy is asked for the first delay and the
\* HubConnection starts reconnecting
ConnectionLost(k) ==
  /\ At(k).svc.connection # "null" /\ At(k).svc.state = "Connected"
  /\ At(k).svc.losses < MaxReconnects
  /\ PApplyAt(k, "reconnecting",
              onreconnecting([At(k) EXCEPT !.svc.state = "Reconnecting",
                                           !.svc.losses = @ + 1,
                                           !.svc.retries = 0,
                                           !.svc.delay = nextRetryDelayInMilliseconds(0)]))
  /\ UNCHANGED authvars

\* a reconnect attempt fails: the retry policy is asked for the next delay
ReconnectFailed(k) ==
  /\ At(k).svc.connection # "null" /\ At(k).svc.state = "Reconnecting"
  /\ At(k).svc.retries < MaxRetries
  /\ PApplyAt(k, "reconnectFailed",
              [At(k) EXCEPT !.svc.retries = @ + 1,
                            !.svc.delay = nextRetryDelayInMilliseconds(At(k).svc.retries + 1),
                            !.ph.used = accessTokenFactory(At(k).svc)])
  /\ UNCHANGED authvars

\* a reconnect attempt succeeds
Reconnected(k) ==
  /\ At(k).svc.connection # "null" /\ At(k).svc.state = "Reconnecting"
  /\ PApplyAt(k, "reconnected",
              onreconnected([At(k) EXCEPT !.svc.state = "Connected",
                                          !.svc.reconnects = @ + 1,
                                          !.svc.retries = 0, !.svc.delay = 0,
                                          !.ph.used = accessTokenFactory(At(k).svc)]))
  /\ UNCHANGED authvars

\* connection.stop() returns (the close handler has run) or rejects (the
\* error is logged): finally block of stop()
StopReturns(k, rejected) ==
  /\ At(k).svc.stopping /\ ~At(k).svc.starting
  /\ LET c1 == IF rejected THEN At(k)
               ELSE onclose([At(k) EXCEPT !.svc.state = "Disconnected"])
     IN PApplyAt(k, IF rejected THEN "stopRejected" ELSE "stopped",
                 [c1 EXCEPT !.svc.stopping = FALSE, !.svc.connection = "null",
                            !.svc.state = "Disconnected", !.svc.listening = FALSE,
                            !.svc.retries = 0, !.svc.delay = 0])
  /\ UNCHANGED authvars

PNext ==
  \/ ServiceStart
  \/ ServiceStop
  \/ RefreshStarts
  \/ TokenRefreshed
  \/ \E k \in Instances : StartOk(k)
  \/ \E k \in Instances : StartFail(k)
  \/ \E k \in Instances : JoinReturns(k)
  \/ \E k \in Instances : ConnectionLost(k)
  \/ \E k \in Instances : ReconnectFailed(k)
  \/ \E k \in Instances : Reconnected(k)
  \/ \E k \in Instances, rejected \in BOOLEAN : StopReturns(k, rejected)

PushSpec == NInit /\ [][PNext]_vars

\* ------------------------------------------------ pushes through the channel
\* An instance hands a ReceiveNotification message to the provider's handler
\* when onNotificationReceived has registered it on a connection that is
\* connected.
Delivers(inst) ==
  inst.connection # "null" /\ inst.state = "Connected" /\ inst.listening

\* connection.on('ReceiveNotification', handleSignalRNotification) fires
receive(c, k, id) ==
  [c EXCEPT !.nstate = handleSignalRNotification(@, id),
            !.ph.delivered = @ \cup {k}]

\* the hub sends one notification to the user's group: every instance that
\* delivers hands it to handleSignalRNotification
ServerPush(id) ==
  /\ Len(nstate.notifications) < MaxLen
  /\ Delivers(svc) \/ Delivers(retired)
  /\ LET c1 == IF Delivers(retired) THEN receive(PWorld, "retired", id) ELSE PWorld
         c2 == IF Delivers(svc) THEN receive(c1, "svc", id) ELSE c1
     IN PApply("push", c2)
  /\ UNCHANGED authvars

\* the channel without the failed attempts of a reconnect
DNext ==
  \/ ServiceStart
  \/ ServiceStop
  \/ TokenRefreshed
  \/ \E k \in Instances : StartOk(k)
  \/ \E k \in Instances : StartFail(k)
  \/ \E k \in Instances : JoinReturns(k)
  \/ \E k \in Instances : ConnectionLost(k)
  \/ \E k \in Instances : Reconnected(k)
  \/ \E k \in Instances, rejected \in BOOLEAN : StopReturns(k, rejected)
  \/ \E id \in Ids : ServerPush(id)

DeliverSpec == NInit /\ [][DNext]_vars

\* =================================================================== claims
Range(f) == {f[i] : i \in DOMAIN f}
Waiting == {r \in Slots : reqs[r].st \in {"parked", "refreshing"}}

\* C1 -- single flight of the 401-triggered refresh: while a refresh call of
\* handleTokenRefresh is outstanding it is the only one, exactly one request
\* started it, every request whose 401 arrived meanwhile is parked on that call
\* and starts none, and when the call completes all of them are resumed with
\* one and the same token (the new access token, or none on failure).
C1_SingleFlight ==
  /\ Cardinality(rcalls) <= 1
  /\ (isRefreshing <=> rcalls # {})
  /\ {r \in Slots : reqs[r].st = "refreshing"} = {c.by : c \in rcalls}
  /\ {r \in Slots : reqs[r].st = "parked"} = Range(refreshSubscribers)
  /\ (Waiting # {} => rcalls # {})
  /\ \A x, y \in h.resumed : x.given = y.given
  /\ \A x \in h.resumed :
        x.given # 0 => /\ reqs[x.r].st = "sent"
                       /\ reqs[x.r].tok.id = x.given
                       /\ reqs[x.r].tok = h.tk

C1_Witness ==
  /\ h.op = "refreshOk"
  /\ Cardinality(h.resumed) >= 2
  /\ \A x \in h.resumed : reqs[x.r].kind = "api" /\ reqs[x.r].tok = h.tk

\* C2 -- at most one refresh network call is outstanding, whichever path
\* started it.
C2_AtMostOneRefreshCall == OutstandingRefreshCalls(World) <= 1

\* C3 -- retry once: a logical request takes part in at most one refresh and is
\* re-sent at most once.
C3_RetryOnce ==
  \A r \in Slots :
     reqs[r].kind = "api" => reqs[r].sends <= 2 /\ reqs[r].started + reqs[r].joined <= 1

\* C4 -- refresh() invoked while a refresh is in flight gives the caller that
\* refresh's eventual result, not an immediate answer.
C4_JoinsInFlight ==
  \A i \in DOMAIN h.calls : h.calls[i].inFlight > 0 => h.calls[i].ret # "null"

\* C5 -- when the refresh yields no token, every request that waited on it is
\* settled with its own Unauthorized error.
C5_OriginalUnauthorized ==
  \A x \in h.settled : (x.kind = "api" /\ x.given = 0) => x.res = "unauthorized"

\* C6 -- fail closed: whenever a refresh call fails, on any path, the store is
\* cleared, a logout event is broadcast, no caller is left waiting, the session
\* is anonymous and no further refresh call is made.
C6_FailClosed ==
  h.callFailed # {} =>
     /\ lsToken = NoTokenData /\ lsUser = NoUser
     /\ "auth:logout" \in Range(h.events)
     /\ refreshSubscribers = <<>>
     /\ ~auth.isAuthenticated /\ auth.token = NoAccess /\ auth.userInfo = NoUser
     /\ h.issued = 0

\* C8 -- login is all or nothing: after a failed login the session is
\* Failed(reason) with no credential in memory, and the store does not hold the
\* Credential that this login wrote before its identity fetch failed.
C8_LoginAllOrNothing ==
  h.login = "failed" =>
     /\ auth.error # "null" /\ ~auth.isAuthenticated /\ ~auth.isLoading
     /\ auth.token = NoAccess /\ auth.refreshToken = NoToken /\ auth.userInfo = NoUser
     /\ \A x \in h.settled : x.kind = "me" => lsToken # x.capTd

\* C9 -- logout clears the store, cancels the proactive timer and leaves the
\* session anonymous with nothing in memory.
C9_Logout ==
  (h.op = "logout" \/ \E i \in DOMAIN h.effs : h.effs[i].branch = "logout") =>
     /\ lsToken = NoTokenData /\ lsUser = NoUser
     /\ timer = NoTime
     /\ auth = initialState

C9_Witness ==
  /\ h.op = "logout"
  /\ h.pre.timer # NoTime /\ h.pre.lsToken # NoTokenData /\ h.pre.lsUser # NoUser
  /\ h.pre.auth.isAuthenticated

RefreshSuccessPost(paths) ==
  (h.succeeded \cap paths # {} /\ h.pre.auth.isAuthenticated) =>
     /\ h.rendered.lsToken = TokenDataOf(h.tk)
     /\ h.rendered.lsUser = h.pre.lsUser
     /\ "auth:tokenRefreshed" \in Range(h.events)
     /\ Waiting = {}
     /\ \A x \in h.resumed : reqs[x.r].st = "sent" /\ reqs[x.r].tok = h.tk
     /\ h.rendered.auth.isAuthenticated
     /\ h.rendered.auth.token = h.tk
     /\ h.rendered.auth.refreshToken = h.tk.id
     /\ h.rendered.auth.tokenExpiresAt = parseTokenExpiry(h.tk, now)
     /\ h.rendered.auth.userInfo = h.pre.auth.userInfo

C12_SilentRefreshOnce ==
  /\ \A r \in Slots :
        reqs[r].kind = "silent" =>
           /\ reqs[r].sends = 1 /\ reqs[r].started = 0 /\ reqs[r].joined = 0
           /\ (h.op = "restoreSession" =>
                 /\ h.issued = 1
                 /\ reqs[r].capTd.refreshToken = lsToken.refreshToken)
  /\ "silent" \in h.succeeded =>
        /\ h.rendered.auth.isAuthenticated
        /\ h.rendered.auth.token = h.tk
        /\ h.rendered.lsToken = TokenDataOf(h.tk)
        /\ (h.pre.lsUser # NoUser => h.rendered.lsUser = h.pre.lsUser)
  /\ "silent" \in h.failed =>
        /\ lsToken = NoTokenData /\ lsUser = NoUser
        /\ ~auth.isAuthenticated

C14_UnreadCountConsistent ==
  nstate.unreadCount = UnreadLength(nstate.notifications)

\* C15 -- idempotent mark-read: markAsRead(id) takes exactly 1 from unreadCount
\* and flips the entries with that id when one of them was unread; otherwise
\* (id already read, or not listed) it changes neither unreadCount nor any
\* entry.
C15_IdempotentMarkRead ==
  [][nh'.op = "markAsRead" =>
       LET id == nh'.id
           old == nstate.notifications
           wasUnread == \E i \in DOMAIN old : old[i].id = id /\ ~old[i].isRead
       IN IF wasUnread
          THEN /\ nstate'.unreadCount = nstate.unreadCount - 1
               /\ DOMAIN nstate'.notifications = DOMAIN old
               /\ \A i \in DOMAIN old :
                     nstate'.notifications[i] =
                        IF old[i].id = id THEN [old[i] EXCEPT !.isRead = TRUE] ELSE old[i]
          ELSE /\ nstate'.unreadCount = nstate.unreadCount
               /\ nstate'.notifications = old]_vars

C15_Witness ==
  /\ nh.op = "markAsRead" /\ nh.hits = 0
  /\ \E i \in DOMAIN nstate.notifications :
        nstate.notifications[i].id = nh.id /\ nstate.notifications[i].isRead

\* C16 -- a failed remote mark-read call keeps the list and the counter as the
\* optimistic update left them, records an error, and touches neither the
\* session, the store of credentials, nor the connection status.
C16_MarkReadFailureKept ==
  [][nh'.op = "markFail" =>
       /\ nstate'.notifications = nstate.notifications
       /\ nstate'.unreadCount = nstate.unreadCount
       /\ nstate'.error = "Failed to update notification status."
       /\ nstate'.isConnected = nstate.isConnected
       /\ auth' = auth /\ lsToken' = lsToken /\ lsUser' = lsUser]_vars

C16_Witness ==
  /\ nh.op = "markFail"
  /\ nstate.error = "Failed to update notification status."
  /\ nstate.isConnected /\ auth.isAuthenticated
  /\ \E i \in DOMAIN nstate.notifications :
        nstate.notifications[i].id = nh.id /\ nstate.notifications[i].isRead

\* C17 -- markAllAsRead: with no unread entry nothing changes and nothing is
\* sent; otherwise every entry is read, unreadCount is 0, and exactly one
\* mark-read call is issued for each id that was unread; a failing call records
\* an error and flips nothing back.
C17_MarkAllRead ==
  [][/\ nh'.op = "markAllAsRead" =>
          LET old == nstate.notifications
              unread == {old[i].id : i \in {k \in DOMAIN old : ~old[k].isRead}}
          IN IF unread = {}
             THEN nstate' = nstate /\ ncalls' = ncalls /\ nh'.issued = <<>>
             ELSE /\ DOMAIN nstate'.notifications = DOMAIN old
                  /\ \A i \in DOMAIN old :
                        nstate'.notifications[i] = [old[i] EXCEPT !.isRead = TRUE]
                  /\ nstate'.unreadCount = 0
                  /\ \A id \in unread :
                        Cardinality({k \in DOMAIN nh'.issued : nh'.issued[k] = id}) = 1
                  /\ \A k \in DOMAIN nh'.issued : nh'.issued[k] \in unread
     /\ nh'.op = "markAllFail" =>
          /\ nstate'.notifications = nstate.notifications
          /\ nstate'.unreadCount = nstate.unreadCount
          /\ nstate'.error # "null"]_vars

C19_SnapshotReplaces ==
  [][nh'.op = "fetchOk" =>
       /\ nstate'.notifications = nh'.list
       /\ nstate'.unreadCount = UnreadLength(nh'.list)
       /\ ~nstate'.isLoading]_vars

C19_Witness ==
  /\ nh.op = "fetchOk"
  /\ nh.had > 0
  /\ nstate.notifications = nh.list /\ nh.list # <<>>
  /\ nstate.unreadCount = UnreadLength(nh.list)

\* C20 -- reconnect handshake: a SignalRService instance has invoked
\* JoinUserGroup once for its connect and once more for each reconnecting ->
\* reconnected transition; an invocation is made in the task of the connect or
\* of the reconnection, one per task, with the connection Connected.
C20_JoinPerConnect ==
  /\ svc.joins = svc.connects + svc.reconnects
  /\ svc.connects <= 1
  /\ ph.invoked = (IF ph.op \in {"startOk", "reconnected"} THEN 1 ELSE 0)
  /\ ph.invoked > 0 => ph.stateAtInvoke = "Connected" /\ svc.state = "Connected"

C20_Witness ==
  /\ ph.op = "reconnected" /\ ph.invoked = 1
  /\ svc.reconnects = 1 /\ svc.joins = 2

\* C21 -- lifecycle gating: signalRServiceRef holds an instance exactly while
\* the session is authenticated; an instance that is no longer held has had
\* stop() called on it; every step that leaves the authenticated state calls
\* stop() on the held instance and nulls the ref, and every step that enters it
\* creates a new instance (nothing connected, nothing joined) and starts it.
C21_ChannelWhileAuthenticated ==
  [][/\ held' <=> auth'.isAuthenticated
     /\ ~held' => svc' = NoConnection
     /\ retired'.connection # "null" => retired'.stopping
     /\ (auth.isAuthenticated /\ ~auth'.isAuthenticated) =>
          /\ ph'.stopCalled
          /\ svc.connection # "null" => retired' = [svc EXCEPT !.stopping = TRUE,
                                                                !.state = "Disconnecting"]
     /\ (~auth.isAuthenticated /\ auth'.isAuthenticated) =>
          /\ ph'.created
          /\ svc' = [NoConnection EXCEPT !.captured = auth'.token, !.connection = "built",
                                         !.state = "Connecting", !.starting = TRUE]]_vars

C21_Witness ==
  /\ ph.op = "start" /\ ph.created /\ held
  /\ retired.stopping /\ retired.connects = 1

\* C22 -- live token: the token accessTokenFactory hands to a connect or a
\* reconnect attempt is the access token of the session at that moment, and a
\* credential refresh leaves the instance in place (it is neither stopped nor
\* replaced), its token getter returning the refreshed token from then on.
C22_LiveTokenGetter ==
  [][/\ ph'.used # NoAccess => ph'.used = auth'.token
     /\ (auth.isAuthenticated /\ auth'.isAuthenticated /\ auth'.token # auth.token) =>
          /\ ~ph'.created /\ ~ph'.stopCalled
          /\ held'
          /\ getAccessToken(svc') = auth'.token]_vars

\* C23 -- reconnect backoff: while an instance is reconnecting, the delay the
\* retry policy returned for previousRetryCount n is min(2^n * 1000, 60000): a
\* delay is returned for every n (the policy never gives up), it is at most
\* 60000, and it does not decrease from one failed attempt to the next.
C23_Backoff ==
  [][/\ svc'.state = "Reconnecting" =>
          /\ svc'.delay = (IF 2 ^ svc'.retries < 60 THEN 2 ^ svc'.retries * 1000 ELSE 60000)
          /\ svc'.delay >= 1000 /\ svc'.delay <= 60000
     /\ ph'.op = "reconnectFailed" =>
          /\ svc'.state = "Reconnecting" /\ svc'.retries = svc.retries + 1
          /\ svc'.delay >= svc.delay]_vars

C23_Witness ==
  /\ ph.op = "reconnectFailed"
  /\ svc.state = "Reconnecting" /\ svc.retries = 6 /\ svc.delay = 60000

\* C24 -- FIFO of the waiters: when the refresh call completes, the requests
\* parked on it are re-sent (on success) or rejected (on failure) in the order
\* in which createRetryPromise queued them, before the request that started
\* the refresh is.
C24_Fifo ==
  [][h'.op \in {"refreshOk", "refreshFail"} =>
       /\ Len(h'.order) = Len(refreshSubscribers) + 1
       /\ SubSeq(h'.order, 1, Len(refreshSubscribers)) = refreshSubscribers]_vars

C24_Witness ==
  /\ h.op = "refreshOk"
  /\ Len(h.order) = 3
  /\ h.order[1] > h.order[2]
  /\ \A i \in 1..3 : reqs[h.order[i]].st = "sent"

\* C25 -- when a refresh is triggered: a 401 response makes the pipeline start
\* a refresh call only for the first send of the logical request and with a
\* refresh token in the store; with no refresh token stored, the 401 of a page's
\* request starts no refresh call, leaves the store as it is, broadcasts no
\* event, and the request is rejected with the 401 error.
C25_RefreshTrigger ==
  [][\A r \in Slots :
       (h'.op = "401" /\ reqs[r].st = "sent" /\ reqs'[r] # reqs[r]) =>
          /\ reqs'[r].st = "refreshing" =>
               /\ reqs[r].sends = 1
               /\ lsToken.refreshToken # NoToken
          /\ (reqs[r].kind = "api" /\ lsToken.refreshToken = NoToken) =>
               /\ rcalls' = rcalls
               /\ lsToken' = lsToken /\ lsUser' = lsUser
               /\ h'.events = <<>>
               /\ \E x \in h'.settled : x.r = r /\ x.res = "unauthorized"]_vars

\* C26 -- expiry parsing: the expiresAt computed for a token whose payload
\* decodes with exp = T is T * 1000; for a token that cannot be decoded it is
\* Date.now() + 3600000 at the time of parsing; a value is computed for every
\* token (no error reaches the caller).
C26_ParseExpiry ==
  h.op = "parse" =>
    /\ lsToken.accessToken = h.tk
    /\ lsToken.expiresAt # NoTime
    /\ h.tk.exp # Malformed => lsToken.expiresAt = h.tk.exp * 1000
    /\ h.tk.exp = Malformed => lsToken.expiresAt = now + 3600000

C26_Witness ==
  /\ h.op = "parse" /\ h.tk.exp = Malformed
  /\ now > StartTime /\ lsToken.expiresAt = now + 3600000

\* the task was a logout, or its expiry effect logged out
LoggedOut(hist) ==
  hist.op = "logout" \/ \E j \in DOMAIN hist.effs : hist.effs[j].branch = "logout"

\* the task handled a response of login(): of POST /identity/login or of
\* GET /api/identity/me
LoginStep(hist) ==
  hist.login # "none" \/ \E s \in hist.settled : s.kind \in {"login", "me"}

\* C27 -- Refreshing keeps the session: starting a refresh changes no field
\* of AuthState other than isRefreshing and error and leaves the store as it
\* is, so the session stays authenticated with its token and identity and the
\* refresh POST carries the stored access token; while the refresh is in
\* flight, a step that neither completes a refresh nor handles a response of
\* login() nor logs out leaves AuthState and the store unchanged, and a request sent in it
\* carries the stored access token.
C27_RefreshingKeepsSession ==
  [][/\ \A i \in DOMAIN h'.calls :
          /\ h'.calls[i].changed \subseteq {"isRefreshing", "error"}
          /\ h'.calls[i].kept
          /\ (h'.calls[i].ret = "pending" /\ ~LoggedOut(h')) =>
               /\ auth'.isRefreshing /\ auth'.isAuthenticated
               /\ auth'.token # NoAccess /\ auth'.userInfo # NoUser
               /\ \A r \in Slots :
                    (reqs'[r].kind = "proactive" /\ reqs'[r].st = "sent" /\ reqs'[r] # reqs[r]) =>
                       reqs'[r].tok = lsToken'.accessToken
     /\ (/\ auth.isRefreshing /\ auth.isAuthenticated
         /\ h'.succeeded = {} /\ h'.failed = {} /\ ~LoginStep(h') /\ ~LoggedOut(h')) =>
          /\ auth' = auth
          /\ lsToken' = lsToken /\ lsUser' = lsUser
          /\ \A r \in Slots :
               (reqs'[r].st = "sent" /\ reqs'[r] # reqs[r]) =>
                  reqs'[r].tok = lsToken.accessToken]_vars

C27_Witness ==
  /\ auth.isRefreshing /\ h.op = "api"
  /\ \E r \in Slots : /\ reqs[r].kind = "api" /\ reqs[r].st = "sent"
                      /\ reqs[r].tok = auth.token /\ reqs[r].tok = lsToken.accessToken
  /\ \E r \in Slots : reqs[r].kind = "proactive" /\ reqs[r].st = "sent"

\* C28 -- teardown is safe: for each instance, in whatever state it is,
\* stop() changes nothing when there is no connection (never started, start
\* failed, already stopped), otherwise it stops the connection, and a second
\* stop() changes nothing more than the first; the call itself reports
\* nothing; when connection.stop() has returned or failed the instance has
\* dropped its connection and no error has reached NotificationsState.
StopOn(inst, ns) ==
  stop([svc |-> inst, held |-> FALSE, retired |-> NoConnection, nstate |-> ns, ph |-> NoPH])

C28_StopSafe ==
  [][/\ \A inst \in {svc', retired'} :
          /\ inst.connection = "null" => StopOn(inst, nstate').svc = inst
          /\ inst.connection # "null" =>
               StopOn(inst, nstate').svc = [inst EXCEPT !.stopping = TRUE,
                                                        !.state = "Disconnecting"]
          /\ StopOn(StopOn(inst, nstate').svc, nstate') = StopOn(inst, nstate')
          /\ StopOn(inst, nstate').nstate = nstate'
     /\ ph'.stopCalled =>
          /\ nstate' = nstate
          /\ svc.connection # "null" => retired'.stopping /\ retired'.state = "Disconnecting"
     /\ ph'.op \in {"stopped", "stopRejected"} =>
          /\ retired'.connection = "null" /\ ~retired'.stopping
          /\ nstate'.error = nstate.error]_vars

C28_Witness ==
  /\ ph.op = "stopRejected"
  /\ retired.connection = "null" /\ ~retired.stopping
  /\ svc.state = "Connected" /\ nstate.error = "null"

\* C29 -- connection states: an instance goes Disconnected -> Connecting ->
\* Connected -> Reconnecting -> Connected, and from any of these back to
\* Disconnected (start failed, or stop(): Disconnecting, then Disconnected),
\* by no other transition; a step reports TRUE to the owner exactly when it is
\* a successful start or a reconnected event and FALSE exactly when it is a
\* reconnecting or a closed event; an instance that is Disconnected never
\* leaves that state: only a new instance created by the owner connects.
AllowedTransitions ==
  {<<"Disconnected", "Connecting">>, <<"Connecting", "Connected">>,
   <<"Connected", "Reconnecting">>, <<"Reconnecting", "Connected">>,
   <<"Connecting", "Disconnected">>, <<"Connected", "Disconnected">>,
   <<"Reconnecting", "Disconnected">>,
   <<"Connecting", "Disconnecting">>, <<"Connected", "Disconnecting">>,
   <<"Reconnecting", "Disconnecting">>, <<"Disconnecting", "Disconnected">>}

Follows(a, b) == a = b \/ <<a, b>> \in AllowedTransitions

\* the cleanup's stop() on the instance the provider holds: an instance with
\* nothing outstanding is dropped, any other is followed as the retired one
Retires ==
  IF Idle(svc) THEN retired' = retired ELSE Follows(svc.state, retired'.state)

C29_ConnectionStates ==
  [][/\ IF ph'.created
        THEN /\ svc'.state = "Connecting" /\ svc'.connects = 0
             /\ ph'.stopCalled => Retires
        ELSE IF ph'.stopCalled
        THEN Retires /\ svc'.state = "Disconnected"
        ELSE /\ Follows(svc.state, svc'.state)
             /\ Follows(retired.state, retired'.state)
             /\ svc.state = "Disconnected" => svc'.state = "Disconnected"
             /\ retired.state = "Disconnected" => retired'.state = "Disconnected"
     /\ ph'.reported = (IF ph'.op \in {"startOk", "reconnected"} THEN <<TRUE>>
                        ELSE IF ph'.op \in {"reconnecting", "stopped"} THEN <<FALSE>>
                        ELSE <<>>)
     /\ nstate'.isConnected = (IF ph'.reported = <<>> THEN nstate.isConnected
                               ELSE ph'.reported[1])]_vars

C29_Witness ==
  /\ ph.op = "reconnected" /\ ph.reported = <<TRUE>>
  /\ svc.state = "Connected" /\ svc.connects = 1 /\ svc.reconnects = 1
  /\ nstate.isConnected

\* C30 -- logout is final: when a proactive or 401-triggered refresh that was
\* in flight at logout() completes successfully in the task after it, the
\* store is still empty (no credential, no identity) and AuthState holds no
\* token.
C30_LogoutFinal ==
  [][(h.op = "logout" /\ h'.succeeded \cap {"proactive", "reactive"} # {}) =>
       /\ lsToken' = NoTokenData /\ lsUser' = NoUser
       /\ auth'.token = NoAccess /\ auth'.refreshToken = NoToken]_vars

\* C31 -- parked requests are settled: the waiter queue holds exactly the
\* parked requests, each once, and only while a refresh call of
\* handleTokenRefresh is outstanding; the queue changes only by a request
\* being parked at its end or by that call completing; when the call
\* succeeds every parked request is re-sent (with the new token given to its
\* callback), when it fails every parked request is rejected with 'Token
\* refresh failed', and either way the queue is empty afterwards.
ParkedIn(q) == {r \in DOMAIN q : q[r].st = "parked"}

C31_ParkedSettled ==
  [][/\ Range(refreshSubscribers') = ParkedIn(reqs')
     /\ Len(refreshSubscribers') = Cardinality(ParkedIn(reqs'))
     /\ refreshSubscribers' # <<>> => (isRefreshing' /\ Cardinality(rcalls') = 1)
     /\ refreshSubscribers' # refreshSubscribers =>
          \/ \E r \in DOMAIN reqs : refreshSubscribers' = Append(refreshSubscribers, r)
          \/ "reactive" \in h'.succeeded \cup h'.failed /\ refreshSubscribers' = <<>>
     /\ "reactive" \in h'.succeeded =>
          /\ refreshSubscribers' = <<>>
          /\ \A r \in Range(refreshSubscribers) :
               /\ reqs'[r].st = "sent" /\ reqs'[r].sends = reqs[r].sends + 1
               /\ [r |-> r, given |-> h'.tk.id] \in h'.resumed
     /\ "reactive" \in h'.failed =>
          /\ refreshSubscribers' = <<>>
          /\ \A r \in Range(refreshSubscribers) :
               /\ reqs'[r].st = "free"
               /\ \E s \in h'.settled : s.r = r /\ s.res = "refreshFailed"]_vars

C31_Witness ==
  /\ h.op = "refreshFail" /\ refreshSubscribers = <<>>
  /\ Cardinality({s \in h.settled : s.res = "refreshFailed"}) = 2

\* C32 -- the gate is released: isRefreshing of AxiosClient is true exactly
\* while the one refresh call of handleTokenRefresh is outstanding, and
\* requests are queued only then; the step in which that call completes, in
\* success or in failure, leaves isRefreshing false and the queue empty; the
\* 401 of a request not yet retried that arrives with the gate open and a
\* refresh token stored starts a refresh; isRefreshing of AuthState is true
\* only while a POST of refreshAccessToken has not settled.
C32_GateReleased ==
  [][/\ isRefreshing' <=> rcalls' # {}
     /\ Cardinality(rcalls') <= 1
     /\ refreshSubscribers' # <<>> => isRefreshing'
     /\ "reactive" \in h'.succeeded \cup h'.failed =>
          ~isRefreshing' /\ refreshSubscribers' = <<>> /\ rcalls' = {}
     /\ \A r \in DOMAIN reqs :
          (/\ h'.op = "401" /\ ~isRefreshing /\ lsToken.refreshToken # NoToken
           /\ reqs[r].st = "sent" /\ ~reqs[r].retry /\ reqs'[r].st # "sent") =>
            /\ isRefreshing' /\ reqs'[r].st = "refreshing"
            /\ rcalls' = {[rt |-> lsToken.refreshToken, by |-> r]}
     /\ auth'.isRefreshing =>
          \E r \in DOMAIN reqs' : reqs'[r].kind = "proactive" /\ reqs'[r].st # "free"]_vars

\* a request that was parked behind one refresh and re-sent by it has started
\* the next refresh
C32_Witness ==
  /\ h.op = "401" /\ isRefreshing
  /\ \E r \in DOMAIN reqs :
       /\ reqs[r].st = "refreshing" /\ reqs[r].joined = 1 /\ reqs[r].sends = 2
       /\ rcalls = {[rt |-> lsToken.refreshToken, by |-> r]}

\* C33 -- the store is the source of truth: whenever the page has booted and
\* no login, no refresh (silent, proactive or 401-triggered) is in progress,
\* the access token and the refresh token of AuthState are those of
\* localStorage 'tokenData' (all absent, or the same pair).
Quiescent ==
  /\ booted /\ ~auth.isLoading /\ ~auth.isRefreshing
  /\ ~isRefreshing /\ rcalls = {}
  /\ \A r \in DOMAIN reqs : reqs[r].kind \notin {"login", "me", "proactive", "silent"}

C33_StoreIsTruth ==
  Quiescent =>
    /\ auth.token = lsToken.accessToken
    /\ auth.refreshToken = lsToken.refreshToken

\* C34 -- one delivering instance: an instance that was cleaned up (the one
\* replaced after a token change, or the one of a session that ended) never
\* hands a push to handleSignalRNotification, so a push is applied by the
\* instance of the ref alone and adds exactly one entry.
C34_OneDelivery ==
  [][/\ ~Delivers(retired')
     /\ ph'.op = "push" =>
          /\ ph'.delivered = {"svc"}
          /\ Len(nstate'.notifications) = Len(nstate.notifications) + 1]_vars

\* the new instance delivers a push while stop() of the replaced one is pending
C34_Witness ==
  /\ ph.op = "push" /\ ph.delivered = {"svc"}
  /\ retired.stopping /\ retired.connects = 1 /\ retired.listening
  /\ auth.token.id = 1

\* C35 -- the status is that of the current instance: while the instance of
\* the ref is connected, an event of an instance that was cleaned up (its
\* close, its failed start) changes neither isConnected nor error of the
\* notifications state.
C35_CurrentInstanceOnly ==
  [][(/\ svc.state = "Connected" /\ svc' = svc
      /\ retired' # retired
      /\ ~ph'.created /\ ~ph'.stopCalled) =>
       /\ nstate'.isConnected = nstate.isConnected
       /\ nstate'.error = nstate.error]_vars

\* C36 -- unique ids: no two entries of state.notifications have the same id.
C36_UniqueIds ==
  \A i, j \in DOMAIN nstate.notifications :
    nstate.notifications[i].id = nstate.notifications[j].id => i = j

\* C37 -- markAllAsRead calls the server for what it flips: the ids of the
\* mark-read calls it issues are the ids of the entries whose isRead it
\* changes from FALSE to TRUE.
Flipped ==
  {nstate.notifications[i].id : i \in {j \in DOMAIN nstate.notifications :
      /\ j \in DOMAIN nstate'.notifications
      /\ ~nstate.notifications[j].isRead /\ nstate'.notifications[j].isRead}}

C37_MarkAllSendsFlipped ==
  [][nh'.op = "markAllAsRead" => Range(nh'.issued) = Flipped]_vars

\* C38 -- unreadCount is never negative.
C38_UnreadCountNonNegative == nstate.unreadCount >= 0

\* the counter has come back to 0 by marking a pushed notification as read
C38_Witness ==
  /\ nh.op = "markAsRead" /\ nh.hits = 1
  /\ nstate.unreadCount = 0 /\ Len(nstate.notifications) = MaxLen

\* the task ran nothing of a refresh or a logout besides the response of login()
LoginAlone(hist) ==
  /\ hist.failed = {} /\ hist.succeeded = {} /\ hist.events = <<>>
  /\ ~LoggedOut(hist)

\* C39 -- login ends: isLoading is true only while a request of login() is
\* pending; the task in which login() handles its last response leaves
\* isLoading false, and the session authenticated with the token pair and the
\* identity login() obtained (LOGIN_SUCCESS), or anonymous with the failure
\* as error (LOGIN_FAILURE); when a refresh fails or the expiry effect logs
\* out in that same task the session is anonymous.
C39_LoginEnds ==
  [][/\ auth'.isLoading =>
          \E r \in DOMAIN reqs' : reqs'[r].kind \in {"login", "me"} /\ reqs'[r].st # "free"
     /\ h'.login # "none" => ~auth'.isLoading
     /\ (h'.login = "ok" /\ LoginAlone(h')) =>
          \E s \in h'.settled :
            /\ s.kind = "me" /\ s.res = "ok"
            /\ auth'.isAuthenticated /\ auth'.userInfo = User1
            /\ auth'.token = s.capTd.accessToken
            /\ auth'.refreshToken = s.capTd.refreshToken
            /\ auth'.tokenExpiresAt = s.capTd.expiresAt
     /\ (h'.login = "failed" /\ LoginAlone(h')) =>
          \E s \in h'.settled :
            /\ s.kind \in {"login", "me"} /\ s.res # "ok"
            /\ ~auth'.isAuthenticated /\ auth'.token = NoAccess /\ auth'.userInfo = NoUser
            /\ auth'.error = s.res
     /\ (h'.login # "none" /\ ~LoginAlone(h') /\ h'.succeeded = {}) => ~auth'.isAuthenticated]_vars

C39_Witness ==
  /\ h.login = "ok" /\ auth.isAuthenticated /\ ~auth.isLoading
  /\ auth.token.id = 1 /\ auth.userInfo = User1

====
